---- MODULE Spec2Model ----
(***************************************************************************)
(* Model of the forex lot-size calculator: the reference table of          *)
(* currency_data.py and the LotSizeCalculator of lot_calculator.py.        *)
(*                                                                         *)
(* Python numbers are modelled as IEEE-754 binary64 values, because the    *)
(* calculator divides, multiplies and rounds floats and its results depend *)
(* on the binary rounding of every step.  A finite float is the record     *)
(* [s, m, e] of value (-1)^s * m * 2^e whose mantissa m is a natural of    *)
(* exactly 53 bits (a little-endian sequence of 15-bit limbs); zero is     *)
(* [s |-> 0, m |-> <<>>, e |-> 0] (Python compares -0.0 equal to 0.0).     *)
(* Magnitudes stay far inside the exponent range of binary64 for the       *)
(* inputs drawn here, so overflow, subnormals and NaN do not arise.        *)
(***************************************************************************)
EXTENDS Integers, Sequences, FiniteSets, TLC

(***************************************************************************)
(* Natural numbers of arbitrary size: little-endian limbs, no leading      *)
(* zero limb, zero is the empty sequence.                                  *)
(***************************************************************************)
LimbBits == 15

Base == 2^LimbBits

RECURSIVE BNorm(_)
BNorm(a) ==
    IF a = <<>> THEN <<>>
    ELSE IF a[Len(a)] = 0 THEN BNorm(SubSeq(a, 1, Len(a) - 1)) ELSE a

RECURSIVE BFromInt(_)
BFromInt(n) ==
    IF n = 0 THEN <<>> ELSE <<n % Base>> \o BFromInt(n \div Base)

BRest(a) == IF a = <<>> THEN <<>> ELSE Tail(a)

BLow(a) == IF a = <<>> THEN 0 ELSE Head(a)

RECURSIVE BAddC(_, _, _)
BAddC(a, b, c) ==
    IF a = <<>> /\ b = <<>>
    THEN (IF c = 0 THEN <<>> ELSE <<c>>)
    ELSE LET t == BLow(a) + BLow(b) + c
         IN  <<t % Base>> \o BAddC(BRest(a), BRest(b), t \div Base)

BAdd(a, b) == BAddC(a, b, 0)

RECURSIVE BSubB(_, _, _)
BSubB(a, b, w) ==
    IF a = <<>> THEN <<>>
    ELSE LET d == Head(a) - BLow(b) - w
         IN  <<d % Base>> \o BSubB(Tail(a), BRest(b), IF d < 0 THEN 1 ELSE 0)

\* a - b for a >= b
BSub(a, b) == BNorm(BSubB(a, b, 0))

RECURSIVE BCmpFrom(_, _, _)
BCmpFrom(a, b, i) ==
    IF i = 0 THEN 0
    ELSE IF a[i] > b[i] THEN 1
    ELSE IF a[i] < b[i] THEN -1
    ELSE BCmpFrom(a, b, i - 1)

\* -1, 0, 1 as a < b, a = b, a > b
BCmp(a, b) ==
    IF Len(a) > Len(b) THEN 1
    ELSE IF Len(a) < Len(b) THEN -1
    ELSE BCmpFrom(a, b, Len(a))

RECURSIVE BMulSmallC(_, _, _)
BMulSmallC(a, k, c) ==
    IF a = <<>>
    THEN (IF c = 0 THEN <<>> ELSE <<c>>)
    ELSE LET p == Head(a) * k + c
         IN  <<p % Base>> \o BMulSmallC(Tail(a), k, p \div Base)

\* a * k for 0 <= k <= Base
BMulSmall(a, k) == IF k = 0 THEN <<>> ELSE BMulSmallC(a, k, 0)

BShiftLimb(a) == IF a = <<>> THEN <<>> ELSE <<0>> \o a

RECURSIVE BMul(_, _)
BMul(a, b) ==
    IF b = <<>> THEN <<>>
    ELSE BAdd(BMulSmall(a, Head(b)), BShiftLimb(BMul(a, Tail(b))))

\* one step of short division: hi is <<quotient, remainder>> of the higher limbs
BDivModSmallStep(low, k, hi) ==
    << <<(hi[2] * Base + low) \div k>> \o hi[1], (hi[2] * Base + low) % k >>

RECURSIVE BDivModSmallR(_, _)
BDivModSmallR(a, k) ==
    IF a = <<>> THEN <<<<>>, 0>>
    ELSE BDivModSmallStep(Head(a), k, BDivModSmallR(Tail(a), k))

BNormQuot(qr) == <<BNorm(qr[1]), qr[2]>>

\* <<a \div k, a % k>> for 1 <= k <= Base
BDivModSmall(a, k) == BNormQuot(BDivModSmallR(a, k))

RECURSIVE SmallBits(_)
SmallBits(x) == IF x = 0 THEN 0 ELSE 1 + SmallBits(x \div 2)

\* number of bits of a
BBitLen(a) ==
    IF a = <<>> THEN 0 ELSE (Len(a) - 1) * LimbBits + SmallBits(a[Len(a)])

\* a * 2^k
BShl(a, k) ==
    IF a = <<>> THEN <<>>
    ELSE [i \in 1..(k \div LimbBits) |-> 0] \o BMulSmall(a, 2^(k % LimbBits))

\* a \div 2^k
BShr(a, k) ==
    LET l == k \div LimbBits
    IN  IF l >= Len(a) THEN <<>>
        ELSE BDivModSmall(SubSeq(a, l + 1, Len(a)), 2^(k % LimbBits))[1]

BIsOdd(a) == a # <<>> /\ a[1] % 2 = 1

RECURSIVE BFixDigit(_, _, _)
BFixDigit(q, r, d) ==
    IF BCmp(BMulSmall(d, q), r) > 0 THEN BFixDigit(q - 1, r, d) ELSE q

\* the two top limbs of r as seen from the top limb of d
BTopLimbs(r, n) ==
    (IF Len(r) > n THEN r[n + 1] * Base ELSE 0) + (IF Len(r) >= n THEN r[n] ELSE 0)

BCapDigit(est) == IF est > Base - 1 THEN Base - 1 ELSE est

\* r \div d for r < d * Base, the top limb of d at least Base / 2
BQuotDigit(r, d) ==
    IF Len(r) < Len(d) THEN 0
    ELSE BFixDigit(BCapDigit(BTopLimbs(r, Len(d)) \div d[Len(d)]), r, d)

BDivModDigit(qhi, r, d, q) == << <<q>> \o qhi, BSub(r, BMulSmall(d, q)) >>

BDivModRem(qhi, r, d) == BDivModDigit(qhi, r, d, BQuotDigit(r, d))

\* one step of long division: hi is <<quotient, remainder>> of the higher limbs
BDivModStep(low, d, hi) == BDivModRem(hi[1], BNorm(<<low>> \o hi[2]), d)

RECURSIVE BDivModR(_, _)
BDivModR(a, d) ==
    IF a = <<>> THEN <<<<>>, <<>>>>
    ELSE BDivModStep(Head(a), d, BDivModR(Tail(a), d))

BDivModUnscale(qr, f) == <<BNorm(qr[1]), BDivModSmall(qr[2], f)[1]>>

BDivModScaled(a, d, f) ==
    BDivModUnscale(BDivModR(BMulSmall(a, f), BMulSmall(d, f)), f)

\* <<a \div d, a % d>> for d > 0 (schoolbook long division on normalised d)
BDivMod(a, d) == BDivModScaled(a, d, 2^(LimbBits - SmallBits(d[Len(d)])))

(***************************************************************************)
(* IEEE-754 binary64, round to nearest, ties to even.                      *)
(***************************************************************************)
MantBits == 53

FZero == [s |-> 0, m |-> <<>>, e |-> 0]

\* the mantissa m1 (of 53 bits, or 2^53 after a carry) at exponent e
FPack(s, m1, e) ==
    IF BBitLen(m1) > MantBits
    THEN [s |-> s, m |-> BShr(m1, 1), e |-> e + 1]
    ELSE [s |-> s, m |-> m1, e |-> e]

\* m rounded up when the dropped part is above the half c > 0, or on it
\* (c = 0) with m odd: ties go to even
BRoundHalfEven(m, c) ==
    IF c > 0 \/ (c = 0 /\ BIsOdd(m)) THEN BAddC(m, <<>>, 1) ELSE m

\* q = m * 2^drop + (the dropped bits), compared with the half 2^(drop - 1)
FRoundDropped(s, q, e, drop, m) ==
    FPack(s, BRoundHalfEven(m, BCmp(BSub(q, BShl(m, drop)), BShl(<<1>>, drop - 1))),
          e + drop)

FRoundTo(s, q, e, drop) == FRoundDropped(s, q, e, drop, BShr(q, drop))

\* q * 2^e rounded to 53 bits; q has more than MantBits + 2 bits and its
\* lowest bit is sticky
FRound(s, q, e) == FRoundTo(s, q, e, BBitLen(q) - MantBits)

\* twice the quotient, its lowest bit set when the division left a remainder
BSticky(qr) == BAddC(BShl(qr[1], 1), <<>>, IF qr[2] = <<>> THEN 0 ELSE 1)

FFromRatScaled(s, n, d, e, k) ==
    FRound(s,
           BSticky(IF d = <<1>> THEN <<BShl(n, k), <<>>>> ELSE BDivMod(BShl(n, k), d)),
           e - k - 1)

Max0(i) == IF i > 0 THEN i ELSE 0

\* the float nearest to (-1)^s * (n / d) * 2^e, for naturals n, d with d > 0
FFromRat(s, n, d, e) ==
    IF n = <<>> THEN FZero
    ELSE FFromRatScaled(s, n, d, e, Max0(MantBits + 2 + BBitLen(d) - BBitLen(n)))

Abs(i) == IF i < 0 THEN -i ELSE i

\* int -> float
FInt(i) == FFromRat(IF i < 0 THEN 1 ELSE 0, BFromInt(Abs(i)), <<1>>, 0)

\* the float literal n / d written in decimal (d a power of ten)
FLit(n, d) == FFromRat(IF n < 0 THEN 1 ELSE 0, BFromInt(Abs(n)), BFromInt(d), 0)

FIsZero(x) == x.m = <<>>

FNeg(x) == IF FIsZero(x) THEN x ELSE [x EXCEPT !.s = 1 - x.s]

\* x * y
FMul(x, y) ==
    IF FIsZero(x) \/ FIsZero(y) THEN FZero
    ELSE FFromRat((x.s + y.s) % 2, BMul(x.m, y.m), <<1>>, x.e + y.e)

\* x / y for y # 0
FDiv(x, y) ==
    IF FIsZero(x) THEN FZero
    ELSE FFromRat((x.s + y.s) % 2, x.m, y.m, x.e - y.e)

\* a * 2^e of sign sa plus b * 2^e of sign sb
FAddAligned(sa, a, sb, b, e) ==
    IF sa = sb THEN FFromRat(sa, BAdd(a, b), <<1>>, e)
    ELSE IF BCmp(a, b) = 0 THEN FZero
    ELSE IF BCmp(a, b) > 0 THEN FFromRat(sa, BSub(a, b), <<1>>, e)
    ELSE FFromRat(sb, BSub(b, a), <<1>>, e)

FAddAt(x, y, e) == FAddAligned(x.s, BShl(x.m, x.e - e), y.s, BShl(y.m, y.e - e), e)

\* x + y
FAdd(x, y) ==
    IF FIsZero(x) THEN y
    ELSE IF FIsZero(y) THEN x
    ELSE FAddAt(x, y, IF x.e < y.e THEN x.e ELSE y.e)

FSub(x, y) == FAdd(x, FNeg(y))

FSign(d) == IF FIsZero(d) THEN 0 ELSE IF d.s = 1 THEN -1 ELSE 1

\* -1, 0, 1 as x < y, x = y, x > y
FCmp(x, y) == FSign(FSub(x, y))

FLeZero(x) == FIsZero(x) \/ x.s = 1

FGtZero(x) == ~FLeZero(x)

\* Python round(x, ndigits) of a float: the decimal of ndigits places
\* nearest to the exact value of x (ties to even), converted back to the
\* nearest float
PyRoundQuot(s, num, sh, q, p) ==
    FFromRat(s, BRoundHalfEven(q, BCmp(BSub(num, BShl(q, sh)), BShl(<<1>>, sh - 1))),
             p, 0)

\* num / 2^sh rounded to an integer (ties to even), over the power of ten p
PyRoundScaled(s, num, sh, p) == PyRoundQuot(s, num, sh, BShr(num, sh), p)

PyRoundPow(x, p) ==
    IF x.e >= 0 THEN FFromRat(x.s, BShl(BMul(x.m, p), x.e), p, 0)
    ELSE PyRoundScaled(x.s, BMul(x.m, p), -x.e, p)

PyRound(x, ndigits) ==
    IF FIsZero(x) THEN FZero ELSE PyRoundPow(x, BFromInt(10^ndigits))


(***************************************************************************)
(* Python values: None, a returned value, a raised exception.              *)
(***************************************************************************)
None == [kind |-> "None", val |-> <<>>]

Some(v) == [kind |-> "value", val |-> v]

Raise(exc) == [kind |-> "raise", val |-> exc]

IsNone(r) == r.kind = "None"

\* x / y of Python numbers: ZeroDivisionError when y is zero
TrueDiv(x, y) == IF FIsZero(y) THEN Raise("ZeroDivisionError") ELSE Some(FDiv(x, y))

\* str.startswith
StartsWith(str, prefix) ==
    Len(str) >= Len(prefix) /\ SubSeq(str, 1, Len(prefix)) = prefix

UpperChars == "ABCDEFGHIJKLMNOPQRSTUVWXYZ"

LowerChars == "abcdefghijklmnopqrstuvwxyz"

LowerChar(c) ==
    LET hit == {i \in 1..Len(UpperChars) : SubSeq(UpperChars, i, i) = c}
    IN  IF hit = {} THEN c
        ELSE LET i == CHOOSE j \in hit : TRUE IN SubSeq(LowerChars, i, i)

\* str.lower
RECURSIVE Lower(_)
Lower(str) ==
    IF Len(str) = 0 THEN ""
    ELSE LowerChar(SubSeq(str, 1, 1)) \o Lower(SubSeq(str, 2, Len(str)))

\* sep.join(strs)
RECURSIVE Join(_, _)
Join(sep, strs) ==
    IF strs = <<>> THEN ""
    ELSE IF Len(strs) = 1 THEN strs[1]
    ELSE strs[1] \o sep \o Join(sep, Tail(strs))

(***************************************************************************)
(* currency_data.py                                                        *)
(***************************************************************************)
VARIABLES CURRENCY_PAIRS, lot_sizes, call, ret

vars == <<CURRENCY_PAIRS, lot_sizes, call, ret>>

PairEntry(pair, n, d, decimals, category) ==
    [pair |-> pair, pip_value_per_standard_lot |-> FLit(n, d),
     decimals |-> decimals, category |-> category]

\* the table in declaration order (a dict keeps insertion order)
CurrencyPairsTable ==
    << PairEntry("EUR/USD", 10, 1, 5, "Major"),
       PairEntry("GBP/USD", 10, 1, 5, "Major"),
       PairEntry("USD/JPY", 913, 100, 3, "Major"),
       PairEntry("AUD/USD", 10, 1, 5, "Major"),
       PairEntry("USD/CAD", 796, 100, 5, "Major"),
       PairEntry("USD/CHF", 1027, 100, 5, "Major"),
       PairEntry("NZD/USD", 10, 1, 5, "Major"),
       PairEntry("EUR/JPY", 913, 100, 3, "Cross"),
       PairEntry("GBP/JPY", 913, 100, 3, "Cross"),
       PairEntry("EUR/GBP", 10, 1, 5, "Cross"),
       PairEntry("AUD/JPY", 913, 100, 3, "Cross"),
       PairEntry("GBP/CAD", 796, 100, 5, "Cross"),
       PairEntry("XAU/USD", 1, 1, 2, "Commodity"),
       PairEntry("XAG/USD", 5, 10, 2, "Commodity") >>

\* dict.get(key): the entry of the key, or None
DictGet(table, key) ==
    LET hit == {i \in 1..Len(table) : table[i].pair = key}
    IN  IF hit = {} THEN None
        ELSE Some(table[CHOOSE i \in hit : TRUE])

CategoryNames == <<"Major", "Cross", "Commodity", "Exotic">>

get_currency_pairs_by_category ==
    LET PairsOf(cat) ==
            LET sel == SelectSeq(CURRENCY_PAIRS, LAMBDA info : info.category = cat)
            IN  [i \in 1..Len(sel) |-> sel[i].pair]
    IN  [cat \in {CategoryNames[i] : i \in 1..Len(CategoryNames)} |-> PairsOf(cat)]

get_all_pairs == [i \in 1..Len(CURRENCY_PAIRS) |-> CURRENCY_PAIRS[i].pair]

get_pair_info(currency_pair) == DictGet(CURRENCY_PAIRS, currency_pair)

\* get_pip_value with every lot type other than mini and micro taken as standard
get_pip_value_default_standard(currency_pair, lot_type) ==
    IF IsNone(DictGet(CURRENCY_PAIRS, currency_pair)) THEN None
    ELSE IF lot_type = "mini"
    THEN Some(FDiv(DictGet(CURRENCY_PAIRS, currency_pair).val.pip_value_per_standard_lot, FInt(10)))
    ELSE IF lot_type = "micro"
    THEN Some(FDiv(DictGet(CURRENCY_PAIRS, currency_pair).val.pip_value_per_standard_lot, FInt(100)))
    ELSE Some(DictGet(CURRENCY_PAIRS, currency_pair).val.pip_value_per_standard_lot)

get_pip_value(currency_pair, lot_type) ==
    LET pair_info == DictGet(CURRENCY_PAIRS, currency_pair)
        pip_value_per_standard == pair_info.val.pip_value_per_standard_lot
    IN  IF IsNone(pair_info) THEN None
        ELSE IF lot_type = "standard" THEN Some(pip_value_per_standard)
        ELSE IF lot_type = "mini" THEN Some(FDiv(pip_value_per_standard, FInt(10)))
        ELSE IF lot_type = "micro" THEN Some(FDiv(pip_value_per_standard, FInt(100)))
        ELSE None

(***************************************************************************)
(* lot_calculator.py: LotSizeCalculator                                    *)
(***************************************************************************)
LotSizesInit == [standard |-> 100000, mini |-> 10000, micro |-> 1000]

\* the lot types the loops run over
LotTypeLoop == {"standard", "mini", "micro"}

\* position_size_record with the lot count rounded to 2 places instead of 4
position_size_record_lots_2dp(position_size_lots, position_size_units, pip_value, actual_risk, lot_size_units) ==
    [position_size_lots  |-> PyRound(position_size_lots, 2),
     position_size_units |-> PyRound(position_size_units, 0),
     pip_value           |-> pip_value,
     actual_risk         |-> PyRound(actual_risk, 2),
     lot_size_units      |-> lot_size_units]

\* position_size_record with the risk rounded to whole dollars instead of cents
position_size_record_risk_0dp(position_size_lots, position_size_units, pip_value, actual_risk, lot_size_units) ==
    [position_size_lots  |-> PyRound(position_size_lots, 4),
     position_size_units |-> PyRound(position_size_units, 0),
     pip_value           |-> pip_value,
     actual_risk         |-> PyRound(actual_risk, 0),
     lot_size_units      |-> lot_size_units]

\* the record stored for one lot type, from the unrounded values
position_size_record(position_size_lots, position_size_units, pip_value, actual_risk, lot_size_units) ==
    [position_size_lots  |-> PyRound(position_size_lots, 4),
     position_size_units |-> PyRound(position_size_units, 0),
     pip_value           |-> pip_value,
     actual_risk         |-> PyRound(actual_risk, 2),
     lot_size_units      |-> lot_size_units]

\* position_size_of_lots with the risk recomputed from the rounded lot count
position_size_of_rounded_lots(position_size_lots, pip_value, stop_loss_pips, lot_size_units) ==
    position_size_record(position_size_lots,
                         FMul(position_size_lots, FInt(lot_size_units)),
                         pip_value,
                         FMul(FMul(PyRound(position_size_lots, 4), pip_value), stop_loss_pips),
                         lot_size_units)

\* position_size_of_lots with the units not multiplied by the lot size
position_size_of_lots_unscaled(position_size_lots, pip_value, stop_loss_pips, lot_size_units) ==
    position_size_record(position_size_lots,
                         position_size_lots,
                         pip_value,
                         FMul(FMul(position_size_lots, pip_value), stop_loss_pips),
                         lot_size_units)

\* the values of one lot type, from the unrounded lot count
position_size_of_lots(position_size_lots, pip_value, stop_loss_pips, lot_size_units) ==
    position_size_record(position_size_lots,
                         FMul(position_size_lots, FInt(lot_size_units)),
                         pip_value,
                         FMul(FMul(position_size_lots, pip_value), stop_loss_pips),
                         lot_size_units)

\* the loop body for one lot type
position_size_row(risk_amount, stop_loss_pips, pip_value, lot_size_units) ==
    position_size_of_lots(FDiv(risk_amount, FMul(pip_value, stop_loss_pips)),
                          pip_value, stop_loss_pips, lot_size_units)

calculate_position_size(risk_amount, stop_loss_pips, currency_pair) ==
    IF IsNone(get_pair_info(currency_pair)) THEN None
    ELSE Some([lot_type \in {t \in LotTypeLoop : ~IsNone(get_pip_value(currency_pair, t))}
                  |-> position_size_row(risk_amount, stop_loss_pips,
                                        get_pip_value(currency_pair, lot_type).val,
                                        lot_sizes[lot_type])])

\* calculate_position_size_by_risk_percentage without the division by 100
risk_percentage_not_divided(account_balance, risk_percentage, stop_loss_pips, currency_pair) ==
    IF FLeZero(account_balance) \/ FLeZero(risk_percentage) \/ FLeZero(stop_loss_pips)
    THEN None
    ELSE calculate_position_size(FMul(account_balance, risk_percentage),
                                 stop_loss_pips, currency_pair)

calculate_position_size_by_risk_percentage(account_balance, risk_percentage, stop_loss_pips, currency_pair) ==
    IF FLeZero(account_balance) \/ FLeZero(risk_percentage) \/ FLeZero(stop_loss_pips)
    THEN None
    ELSE calculate_position_size(FMul(account_balance, FDiv(risk_percentage, FInt(100))),
                                 stop_loss_pips, currency_pair)

calculate_position_size_by_dollar_amount(risk_amount, stop_loss_pips, currency_pair) ==
    IF FLeZero(risk_amount) \/ FLeZero(stop_loss_pips)
    THEN None
    ELSE calculate_position_size(risk_amount, stop_loss_pips, currency_pair)

calculate_pip_value_info(currency_pair) ==
    LET pair_info == get_pair_info(currency_pair)
    IN  IF IsNone(pair_info) THEN None
        ELSE Some([lot_type \in LotTypeLoop |->
                      [pip_value |-> get_pip_value(currency_pair, lot_type),
                       lot_size  |-> lot_sizes[lot_type],
                       decimals  |-> pair_info.val.decimals]])

\* calculate_risk_reward_ratio guarding stop_loss_pips < 0 instead of <= 0
risk_reward_ratio_strict_guard(take_profit_pips, stop_loss_pips) ==
    IF ~FIsZero(stop_loss_pips) /\ stop_loss_pips.s = 1 THEN None
    ELSE TrueDiv(take_profit_pips, stop_loss_pips)

calculate_risk_reward_ratio(take_profit_pips, stop_loss_pips) ==
    IF FLeZero(stop_loss_pips) THEN None
    ELSE TrueDiv(take_profit_pips, stop_loss_pips)

\* calculate_margin_required without the lookup of the pair
margin_required_unchecked(lot_size, entry_price, leverage, currency_pair) ==
    IF StartsWith(currency_pair, "USD/")
    THEN TrueDiv(FMul(FMul(lot_size, FInt(100000)), entry_price), leverage)
    ELSE TrueDiv(FMul(lot_size, FInt(100000)), leverage)

\* calculate_margin_required with the notional value in both branches
margin_required_always_notional(lot_size, entry_price, leverage, currency_pair) ==
    IF IsNone(get_pair_info(currency_pair)) THEN None
    ELSE TrueDiv(FMul(FMul(lot_size, FInt(100000)), entry_price), leverage)

calculate_margin_required(lot_size, entry_price, leverage, currency_pair) ==
    LET pair_info      == get_pair_info(currency_pair)
        contract_size  == FInt(100000)
        notional_value == FMul(FMul(lot_size, contract_size), entry_price)
    IN  IF IsNone(pair_info) THEN None
        ELSE IF StartsWith(currency_pair, "USD/")
        THEN TrueDiv(notional_value, leverage)
        ELSE TrueDiv(FMul(lot_size, contract_size), leverage)

\* calculate_price_levels comparing the direction without lower()
price_levels_case_sensitive(entry_price, stop_loss_pips, take_profit_pips, trade_direction, currency_pair) ==
    LET pair_info == get_pair_info(currency_pair)
        decimals  == pair_info.val.decimals
        pip_size  == IF decimals = 2 THEN FLit(1, 100) ELSE FLit(1, 10000)
        buy       == trade_direction = "buy"
        sl_price  == IF buy THEN FSub(entry_price, FMul(stop_loss_pips, pip_size))
                     ELSE FAdd(entry_price, FMul(stop_loss_pips, pip_size))
        tp_price  == IF buy THEN FAdd(entry_price, FMul(take_profit_pips, pip_size))
                     ELSE FSub(entry_price, FMul(take_profit_pips, pip_size))
    IN  IF IsNone(pair_info) THEN None
        ELSE Some([stop_loss_price   |-> PyRound(sl_price, decimals),
                   take_profit_price |-> PyRound(tp_price, decimals)])

calculate_price_levels(entry_price, stop_loss_pips, take_profit_pips, trade_direction, currency_pair) ==
    LET pair_info == get_pair_info(currency_pair)
        decimals  == pair_info.val.decimals
        pip_size  == IF decimals = 2 THEN FLit(1, 100) ELSE FLit(1, 10000)
        buy       == Lower(trade_direction) = "buy"
        sl_price  == IF buy THEN FSub(entry_price, FMul(stop_loss_pips, pip_size))
                     ELSE FAdd(entry_price, FMul(stop_loss_pips, pip_size))
        tp_price  == IF buy THEN FAdd(entry_price, FMul(take_profit_pips, pip_size))
                     ELSE FSub(entry_price, FMul(take_profit_pips, pip_size))
    IN  IF IsNone(pair_info) THEN None
        ELSE Some([stop_loss_price   |-> PyRound(sl_price, decimals),
                   take_profit_price |-> PyRound(tp_price, decimals)])

calculate_reward_amount(lot_size, take_profit_pips, currency_pair, lot_type) ==
    LET pip_value == get_pip_value(currency_pair, lot_type)
    IN  IF IsNone(pip_value) THEN None
        ELSE Some(FMul(FMul(lot_size, pip_value.val), take_profit_pips))

\* check_account_health with the upper bounds of the bands exclusive
check_account_health_exclusive_bounds(risk_percentage) ==
    IF FCmp(risk_percentage, FInt(1)) < 0
    THEN [status |-> "excellent", color |-> "success",
          message |-> "Excellent risk management - Very conservative approach"]
    ELSE IF FCmp(risk_percentage, FInt(2)) < 0
    THEN [status |-> "good", color |-> "success",
          message |-> "Good risk management - Balanced approach"]
    ELSE IF FCmp(risk_percentage, FInt(3)) < 0
    THEN [status |-> "moderate", color |-> "warning",
          message |-> "Moderate risk - Consider reducing position size"]
    ELSE IF FCmp(risk_percentage, FInt(5)) < 0
    THEN [status |-> "high", color |-> "error",
          message |-> "High risk - You're risking more than recommended!"]
    ELSE [status |-> "dangerous", color |-> "error",
          message |-> "DANGEROUS - This could wipe out your account quickly!"]

\* the message texts without their leading pictograph
check_account_health(risk_percentage) ==
    IF FCmp(risk_percentage, FInt(1)) <= 0
    THEN [status |-> "excellent", color |-> "success",
          message |-> "Excellent risk management - Very conservative approach"]
    ELSE IF FCmp(risk_percentage, FInt(2)) <= 0
    THEN [status |-> "good", color |-> "success",
          message |-> "Good risk management - Balanced approach"]
    ELSE IF FCmp(risk_percentage, FInt(3)) <= 0
    THEN [status |-> "moderate", color |-> "warning",
          message |-> "Moderate risk - Consider reducing position size"]
    ELSE IF FCmp(risk_percentage, FInt(5)) <= 0
    THEN [status |-> "high", color |-> "error",
          message |-> "High risk - You're risking more than recommended!"]
    ELSE [status |-> "dangerous", color |-> "error",
          message |-> "DANGEROUS - This could wipe out your account quickly!"]

\* validate_inputs without the upper bound of the risk percentage
validate_inputs_no_upper_bound(account_balance, risk_percentage, risk_amount, stop_loss_pips, take_profit_pips, entry_price) ==
    LET Msg(bad, text) == IF bad THEN <<text>> ELSE <<>>
        errors ==
            Msg(~IsNone(account_balance) /\ FLeZero(account_balance.val),
                "Account balance must be greater than 0")
            \o Msg(~IsNone(risk_percentage) /\ FLeZero(risk_percentage.val),
                   "Risk percentage must be between 0 and 100")
            \o Msg(~IsNone(risk_amount) /\ FLeZero(risk_amount.val),
                   "Risk amount must be greater than 0")
            \o Msg(~IsNone(stop_loss_pips) /\ FLeZero(stop_loss_pips.val),
                   "Stop loss pips must be greater than 0")
            \o Msg(~IsNone(take_profit_pips) /\ FLeZero(take_profit_pips.val),
                   "Take profit pips must be greater than 0")
            \o Msg(~IsNone(entry_price) /\ FLeZero(entry_price.val),
                   "Entry price must be greater than 0")
    IN  IF errors # <<>> THEN <<FALSE, Join("; ", errors)>>
        ELSE <<TRUE, "">>

\* each argument is None (not supplied) or Some(number)
validate_inputs(account_balance, risk_percentage, risk_amount, stop_loss_pips, take_profit_pips, entry_price) ==
    LET Msg(bad, text) == IF bad THEN <<text>> ELSE <<>>
        errors ==
            Msg(~IsNone(account_balance) /\ FLeZero(account_balance.val),
                "Account balance must be greater than 0")
            \o Msg(~IsNone(risk_percentage)
                      /\ (FLeZero(risk_percentage.val)
                            \/ FCmp(risk_percentage.val, FInt(100)) > 0),
                   "Risk percentage must be between 0 and 100")
            \o Msg(~IsNone(risk_amount) /\ FLeZero(risk_amount.val),
                   "Risk amount must be greater than 0")
            \o Msg(~IsNone(stop_loss_pips) /\ FLeZero(stop_loss_pips.val),
                   "Stop loss pips must be greater than 0")
            \o Msg(~IsNone(take_profit_pips) /\ FLeZero(take_profit_pips.val),
                   "Take profit pips must be greater than 0")
            \o Msg(~IsNone(entry_price) /\ FLeZero(entry_price.val),
                   "Entry price must be greater than 0")
    IN  IF errors # <<>> THEN <<FALSE, Join("; ", errors)>>
        ELSE <<TRUE, "">>

(***************************************************************************)
(* The arguments the calls are made with.                                  *)
(***************************************************************************)
MaxPipSteps == 2

MaxRiskSteps == 2

MaxLeverageSteps == 2

KnownPairs == {CurrencyPairsTable[i].pair : i \in 1..Len(CurrencyPairsTable)}

UnknownPairs == {"USD/XXX", "eur/usd"}

Pairs == KnownPairs \cup UnknownPairs

LotTypeArgs == {"standard", "mini", "micro", "nano"}

StopLossPips == {FInt(20 * k) : k \in -1..MaxPipSteps}

TakeProfitPips == {FInt(0), FInt(40)}

RiskAmounts ==
    {FInt(100 * k) : k \in -1..MaxRiskSteps}
        \cup {FLit(1, 1000), FLit(11, 1000), FLit(17, 1000), FLit(100123, 1000), FLit(25075, 100)}

Balances == {FInt(-1000), FInt(0), FInt(4500), FInt(10000)}

Percentages == {FInt(-1), FInt(0), FInt(2), FLit(35, 10)}

LotSizeArgs == {FInt(1), FLit(5, 10)}

EntryPrices == {FLit(11, 10), FLit(15025, 100)}

Leverages == {FInt(50 * k) : k \in -1..MaxLeverageSteps}

LevelPips == {FInt(1), FInt(20)}

Directions == {"buy", "BUY", "Buy", "sell", "hold"}

HealthPercentages ==
    {FLit(n, 100) : n \in {-100, 0, 50, 100, 101, 200, 201, 300, 301, 500, 501, 1000}}

\* an optional argument: not supplied, violating its bound, within it
Optional(values) == {None} \cup {Some(v) : v \in values}

Idle == [op |-> "idle", args |-> <<>>]

(***************************************************************************)
(* The calculator is constructed; then the caller calls one operation at   *)
(* a time and takes its result.                                            *)
(***************************************************************************)
Init ==
    /\ CURRENCY_PAIRS = CurrencyPairsTable
    /\ lot_sizes = LotSizesInit
    /\ call = Idle
    /\ ret = None

\* Called with the looked-up pair taken out of the table (pop in place of get)
called_popping_pair(op, args, result) ==
    /\ call = Idle
    /\ call' = [op |-> op, args |-> args]
    /\ ret' = result
    /\ CURRENCY_PAIRS' = SelectSeq(CURRENCY_PAIRS,
                                   LAMBDA e : ~("currency_pair" \in DOMAIN args
                                                /\ e.pair = args["currency_pair"]))
    /\ UNCHANGED lot_sizes

Called(op, args, result) ==
    /\ call = Idle
    /\ call' = [op |-> op, args |-> args]
    /\ ret' = result
    /\ UNCHANGED <<CURRENCY_PAIRS, lot_sizes>>

CalculatePositionSizeByRiskPercentage ==
    \E b \in Balances, p \in Percentages, sl \in StopLossPips, pair \in Pairs :
        Called("calculate_position_size_by_risk_percentage",
               [account_balance |-> b, risk_percentage |-> p,
                stop_loss_pips |-> sl, currency_pair |-> pair],
               calculate_position_size_by_risk_percentage(b, p, sl, pair))

CalculatePositionSizeByDollarAmount ==
    \E ra \in RiskAmounts, sl \in StopLossPips, pair \in Pairs :
        Called("calculate_position_size_by_dollar_amount",
               [risk_amount |-> ra, stop_loss_pips |-> sl, currency_pair |-> pair],
               calculate_position_size_by_dollar_amount(ra, sl, pair))

CalculatePipValueInfo ==
    \E pair \in Pairs :
        Called("calculate_pip_value_info", [currency_pair |-> pair],
               calculate_pip_value_info(pair))

CalculateRiskRewardRatio ==
    \E tp \in TakeProfitPips, sl \in StopLossPips :
        Called("calculate_risk_reward_ratio",
               [take_profit_pips |-> tp, stop_loss_pips |-> sl],
               calculate_risk_reward_ratio(tp, sl))

CalculateMarginRequired ==
    \E ls \in LotSizeArgs, ep \in EntryPrices, lev \in Leverages, pair \in Pairs :
        Called("calculate_margin_required",
               [lot_size |-> ls, entry_price |-> ep, leverage |-> lev,
                currency_pair |-> pair],
               calculate_margin_required(ls, ep, lev, pair))

CalculatePriceLevels ==
    \E ep \in EntryPrices, sl \in LevelPips, tp \in LevelPips,
       dir \in Directions, pair \in Pairs :
        Called("calculate_price_levels",
               [entry_price |-> ep, stop_loss_pips |-> sl, take_profit_pips |-> tp,
                trade_direction |-> dir, currency_pair |-> pair],
               calculate_price_levels(ep, sl, tp, dir, pair))

CalculateRewardAmount ==
    \E ls \in LotSizeArgs, tp \in TakeProfitPips, pair \in Pairs, lt \in LotTypeArgs :
        Called("calculate_reward_amount",
               [lot_size |-> ls, take_profit_pips |-> tp, currency_pair |-> pair,
                lot_type |-> lt],
               calculate_reward_amount(ls, tp, pair, lt))

CheckAccountHealth ==
    \E p \in HealthPercentages :
        Called("check_account_health", [risk_percentage |-> p],
               Some(check_account_health(p)))

ValidateInputs ==
    \E b \in Optional({FInt(0), FInt(10000)}),
       p \in Optional({FInt(0), FInt(2), FInt(100), FLit(10001, 100)}),
       ra \in Optional({FInt(-100), FInt(200)}),
       sl \in Optional({FInt(0), FInt(20)}),
       tp \in Optional({FInt(-40), FInt(40)}),
       ep \in Optional({FInt(0), FLit(11, 10)}) :
        Called("validate_inputs",
               [account_balance |-> b, risk_percentage |-> p, risk_amount |-> ra,
                stop_loss_pips |-> sl, take_profit_pips |-> tp, entry_price |-> ep],
               Some(validate_inputs(b, p, ra, sl, tp, ep)))

GetPipValue ==
    \E pair \in Pairs, lt \in LotTypeArgs :
        Called("get_pip_value", [currency_pair |-> pair, lot_type |-> lt],
               get_pip_value(pair, lt))

GetPairInfo ==
    \E pair \in Pairs :
        Called("get_pair_info", [currency_pair |-> pair], get_pair_info(pair))

GetAllPairs == Called("get_all_pairs", <<>>, Some(get_all_pairs))

GetCurrencyPairsByCategory ==
    Called("get_currency_pairs_by_category", <<>>, Some(get_currency_pairs_by_category))

\* the caller has taken the result
Return ==
    /\ call # Idle
    /\ call' = Idle
    /\ ret' = None
    /\ UNCHANGED <<CURRENCY_PAIRS, lot_sizes>>

Next ==
    \/ CalculatePositionSizeByRiskPercentage
    \/ CalculatePositionSizeByDollarAmount
    \/ CalculatePipValueInfo
    \/ CalculateRiskRewardRatio
    \/ CalculateMarginRequired
    \/ CalculatePriceLevels
    \/ CalculateRewardAmount
    \/ CheckAccountHealth
    \/ ValidateInputs
    \/ GetPipValue
    \/ GetPairInfo
    \/ GetAllPairs
    \/ GetCurrencyPairsByCategory
    \/ Return

Spec == Init /\ [][Next]_vars

(***************************************************************************)
(* Properties.                                                             *)
(***************************************************************************)
IsKnownPair(pair) == \E i \in 1..Len(CURRENCY_PAIRS) : CURRENCY_PAIRS[i].pair = pair

ByDollar == call.op = "calculate_position_size_by_dollar_amount"

ByPercentage == call.op = "calculate_position_size_by_risk_percentage"

\* a call of the dollar-amount routine whose preconditions hold
DollarSized ==
    /\ ByDollar
    /\ IsKnownPair(call.args.currency_pair)
    /\ FGtZero(call.args.risk_amount)
    /\ FGtZero(call.args.stop_loss_pips)

\* a call of the risk-percentage routine whose preconditions hold
PercentageSized ==
    /\ ByPercentage
    /\ IsKnownPair(call.args.currency_pair)
    /\ FGtZero(call.args.account_balance)
    /\ FGtZero(call.args.risk_percentage)
    /\ FGtZero(call.args.stop_loss_pips)

\* a call that went through the core sizing routine
Sized == DollarSized \/ PercentageSized

\* the risk amount the core sizing routine was given
SizedRiskAmount ==
    IF ByDollar THEN call.args.risk_amount
    ELSE FMul(call.args.account_balance, FDiv(call.args.risk_percentage, FInt(100)))

ThreeLotTypes == {"standard", "mini", "micro"}

UnitsOfLotType(t) ==
    IF t = "standard" THEN 100000 ELSE IF t = "mini" THEN 10000 ELSE 1000

\* the record of lot type t is the one the sizing formulas give for risk_amount
SizingFormulas(rec, t, risk_amount, stop_loss_pips, pair) ==
    /\ rec.pip_value = get_pip_value(pair, t).val
    /\ rec.lot_size_units = UnitsOfLotType(t)
    /\ rec.position_size_lots
          = PyRound(FDiv(risk_amount, FMul(rec.pip_value, stop_loss_pips)), 4)
    /\ rec.position_size_units
          = PyRound(FMul(FDiv(risk_amount, FMul(rec.pip_value, stop_loss_pips)),
                         FInt(rec.lot_size_units)), 0)

IsExampleCall ==
    /\ ByPercentage
    /\ call.args.account_balance = FInt(10000)
    /\ call.args.risk_percentage = FInt(2)
    /\ call.args.stop_loss_pips = FInt(20)
    /\ call.args.currency_pair = "EUR/USD"

ExampleResult ==
    /\ ret.kind = "value"
    /\ ret.val["standard"].position_size_lots = FInt(1)
    /\ ret.val["standard"].position_size_units = FInt(100000)
    /\ ret.val["standard"].actual_risk = FInt(200)

\* C1 (as amended): for a known pair and positive arguments the dollar-amount
\* routine returns, per lot type, pip_value = get_pip_value(pair, t), the lot
\* count risk_amount / (pip_value * stop_loss_pips) rounded to 4 places, the
\* units (unrounded lots * lot_size_units) rounded to 0 places and
\* lot_size_units 100000 / 10000 / 1000; the risk-percentage routine returns
\* the result of the dollar-amount routine for the float
\* risk_amount = balance * (pct / 100), the percentage divided by 100 first;
\* 10000, 2, 20, EUR/USD gives 1.0 standard lots, 100000 units, risk 200.00.
C1_SizingFormulas ==
    /\ DollarSized =>
          /\ ret.kind = "value"
          /\ \A t \in ThreeLotTypes :
                SizingFormulas(ret.val[t], t, call.args.risk_amount,
                               call.args.stop_loss_pips, call.args.currency_pair)
    /\ PercentageSized =>
          ret = calculate_position_size_by_dollar_amount(
                    FMul(call.args.account_balance,
                         FDiv(call.args.risk_percentage, FInt(100))),
                    call.args.stop_loss_pips, call.args.currency_pair)
    /\ IsExampleCall => ExampleResult

C1_ExampleReached == IsExampleCall /\ ExampleResult

\* C1 as stated: the risk-percentage routine returns exactly the result of
\* the dollar-amount routine for risk_amount = balance * pct / 100.
C1_AsStated ==
    PercentageSized =>
        ret = calculate_position_size_by_dollar_amount(
                  FDiv(FMul(call.args.account_balance, call.args.risk_percentage),
                       FInt(100)),
                  call.args.stop_loss_pips, call.args.currency_pair)

UnroundedLots(t) ==
    FDiv(SizedRiskAmount, FMul(ret.val[t].pip_value, call.args.stop_loss_pips))

\* C2 (as amended): for a known pair, risk_amount > 0 and stop_loss_pips > 0
\* the dollar-amount routine returns a mapping whose keys are exactly
\* standard, mini and micro; each position_size_lots is never negative, and
\* is strictly greater than 0 exactly when the unrounded lot count is at
\* least 0.00005 (below that it is rounded to 0).
C2_KeysAndLots ==
    DollarSized =>
        /\ ret.kind = "value"
        /\ DOMAIN ret.val = ThreeLotTypes
        /\ \A t \in ThreeLotTypes :
              /\ FIsZero(ret.val[t].position_size_lots)
                    \/ FGtZero(ret.val[t].position_size_lots)
              /\ FGtZero(ret.val[t].position_size_lots)
                    <=> FCmp(UnroundedLots(t), FLit(5, 100000)) >= 0

C2_RoundedToZero ==
    /\ DollarSized
    /\ ret.kind = "value"
    /\ FIsZero(ret.val["standard"].position_size_lots)
    /\ FGtZero(ret.val["micro"].position_size_lots)

\* C2 as stated: the keys are exactly standard, mini and micro and every
\* returned position_size_lots is strictly greater than 0.
C2_AsStated ==
    DollarSized =>
        /\ ret.kind = "value"
        /\ DOMAIN ret.val = ThreeLotTypes
        /\ \A t \in ThreeLotTypes : FGtZero(ret.val[t].position_size_lots)

RiskFromRoundedLots(t) ==
    PyRound(FMul(FMul(ret.val[t].position_size_lots, ret.val[t].pip_value),
                 call.args.stop_loss_pips), 2)

RiskFromUnroundedLots(t) ==
    PyRound(FMul(FMul(UnroundedLots(t), ret.val[t].pip_value),
                 call.args.stop_loss_pips), 2)

\* C3 (as amended): in the core sizing routine actual_risk is derived from
\* the unrounded lot count (risk_amount / (pip_value * stop_loss_pips), times
\* pip_value, times stop_loss_pips, rounded to 2 places); the rounding of the
\* lot count to 4 places happens only in the returned record and is not fed
\* into actual_risk.
C3_RiskFromUnrounded ==
    Sized =>
        /\ ret.kind = "value"
        /\ \A t \in ThreeLotTypes : ret.val[t].actual_risk = RiskFromUnroundedLots(t)

C3_RoundingNotFedBack ==
    /\ Sized
    /\ ret.kind = "value"
    /\ ret.val["standard"].actual_risk = RiskFromUnroundedLots("standard")
    /\ ret.val["standard"].actual_risk # RiskFromRoundedLots("standard")

\* C3 as stated: actual_risk is recomputed from the lot count after its
\* rounding to 4 places.
C3_AsStated ==
    Sized =>
        /\ ret.kind = "value"
        /\ \A t \in ThreeLotTypes : ret.val[t].actual_risk = RiskFromRoundedLots(t)

\* C4 (as amended): actual_risk is a value of 2 decimal places; it equals
\* the requested risk_amount exactly if and only if risk_amount itself has
\* at most 2 decimal places (round(risk_amount, 2) = risk_amount), for every
\* known pair, lot type, risk_amount > 0 and stop_loss_pips > 0.
C4_RiskEqualsCents ==
    Sized =>
        /\ ret.kind = "value"
        /\ \A t \in ThreeLotTypes :
              /\ PyRound(ret.val[t].actual_risk, 2) = ret.val[t].actual_risk
              /\ ret.val[t].actual_risk = SizedRiskAmount
                    <=> PyRound(SizedRiskAmount, 2) = SizedRiskAmount

C4_RiskRounded ==
    /\ DollarSized
    /\ call.args.risk_amount = FLit(100123, 1000)
    /\ ret.kind = "value"
    /\ ret.val["standard"].actual_risk = FLit(10012, 100)

\* C4 as stated: actual_risk always equals the requested risk_amount exactly.
C4_AsStated ==
    Sized =>
        /\ ret.kind = "value"
        /\ \A t \in ThreeLotTypes : ret.val[t].actual_risk = SizedRiskAmount

TakesPair ==
    call.op \in {"calculate_position_size_by_risk_percentage",
                 "calculate_position_size_by_dollar_amount",
                 "calculate_pip_value_info",
                 "calculate_margin_required",
                 "calculate_price_levels",
                 "calculate_reward_amount"}

\* C5: for a pair symbol that is not a key of the reference table every
\* calculator method that takes a pair returns None and does not raise,
\* whatever the other arguments are.
C5_UnknownPairIsNone ==
    (TakesPair /\ ~IsKnownPair(call.args.currency_pair)) => ret.kind = "None"

C5_UnknownPairZeroLeverage ==
    /\ call.op = "calculate_margin_required"
    /\ ~IsKnownPair(call.args.currency_pair)
    /\ FIsZero(call.args.leverage)
    /\ ret.kind = "None"

\* C6: a non-positive divisor input yields None: the risk-percentage routine
\* when any of balance, percentage, stop_loss_pips is <= 0, the dollar-amount
\* routine when risk_amount <= 0 or stop_loss_pips <= 0, the risk-reward
\* ratio when stop_loss_pips <= 0; otherwise the ratio is
\* take_profit_pips / stop_loss_pips, a ratio of 0 included.
C6_NonPositiveDivisor ==
    /\ (ByPercentage /\ (FLeZero(call.args.account_balance)
                            \/ FLeZero(call.args.risk_percentage)
                            \/ FLeZero(call.args.stop_loss_pips)))
          => ret.kind = "None"
    /\ (ByDollar /\ (FLeZero(call.args.risk_amount) \/ FLeZero(call.args.stop_loss_pips)))
          => ret.kind = "None"
    /\ call.op = "calculate_risk_reward_ratio" =>
          IF FLeZero(call.args.stop_loss_pips) THEN ret.kind = "None"
          ELSE /\ ret.kind = "value"
               /\ ret.val = FDiv(call.args.take_profit_pips, call.args.stop_loss_pips)

C6_ZeroRatio ==
    /\ call.op = "calculate_risk_reward_ratio"
    /\ FIsZero(call.args.take_profit_pips)
    /\ FGtZero(call.args.stop_loss_pips)
    /\ ret.kind = "value"
    /\ FIsZero(ret.val)

\* the fields in their fixed order, each with its message
ValidatedFields ==
    << [field |-> "account_balance", text |-> "Account balance must be greater than 0"],
       [field |-> "risk_percentage", text |-> "Risk percentage must be between 0 and 100"],
       [field |-> "risk_amount", text |-> "Risk amount must be greater than 0"],
       [field |-> "stop_loss_pips", text |-> "Stop loss pips must be greater than 0"],
       [field |-> "take_profit_pips", text |-> "Take profit pips must be greater than 0"],
       [field |-> "entry_price", text |-> "Entry price must be greater than 0"] >>

\* the supplied field violates its bound
ViolatesBound(field) ==
    /\ call.args[field].kind = "value"
    /\ \/ FLeZero(call.args[field].val)
       \/ field = "risk_percentage" /\ FCmp(call.args[field].val, FInt(100)) > 0

ViolatedFields == SelectSeq(ValidatedFields, LAMBDA f : ViolatesBound(f.field))

RECURSIVE MessagesOf(_)
MessagesOf(fields) ==
    IF fields = <<>> THEN ""
    ELSE IF Len(fields) = 1 THEN fields[1].text
    ELSE fields[1].text \o "; " \o MessagesOf(Tail(fields))

\* C7: validate_inputs returns all_valid = true with an empty message exactly
\* when no supplied field violates its bound; otherwise false with exactly
\* one message per violated supplied field, in the fixed field order; a field
\* that is not supplied contributes no message.
C7_ValidateInputs ==
    call.op = "validate_inputs" =>
        /\ ret.val[1] <=> ViolatedFields = <<>>
        /\ ret.val[1] => ret.val[2] = ""
        /\ ret.val[2] = MessagesOf(ViolatedFields)

C7_TwoViolations ==
    /\ call.op = "validate_inputs"
    /\ call.args.account_balance = Some(FInt(0))
    /\ call.args.risk_percentage = None
    /\ call.args.stop_loss_pips = Some(FInt(0))
    /\ ret.val = <<FALSE, "Account balance must be greater than 0; Stop loss pips must be greater than 0">>

MarginCall == call.op = "calculate_margin_required"

\* C8: for a known pair (and a leverage other than 0) the margin is
\* lot_size * 100000 * entry_price / leverage when the symbol begins with
\* "USD/", and lot_size * 100000 / leverage otherwise; in the second branch
\* the margin is the same for every entry_price; (1.0, 1.10000, 100, EUR/USD)
\* gives 1000.0; the contract size is 100000 whatever lot_sizes holds.
C8_MarginFormula ==
    (MarginCall /\ IsKnownPair(call.args.currency_pair) /\ ~FIsZero(call.args.leverage)) =>
        /\ ret.kind = "value"
        /\ IF SubSeq(call.args.currency_pair, 1, 4) = "USD/"
           THEN ret.val = FDiv(FMul(FMul(call.args.lot_size, FInt(100000)),
                                    call.args.entry_price), call.args.leverage)
           ELSE /\ ret.val = FDiv(FMul(call.args.lot_size, FInt(100000)),
                                  call.args.leverage)
                /\ \A ep \in EntryPrices :
                      calculate_margin_required(call.args.lot_size, ep, call.args.leverage,
                                                call.args.currency_pair) = ret
        /\ (/\ call.args.lot_size = FInt(1)
            /\ call.args.entry_price = FLit(11, 10)
            /\ call.args.leverage = FInt(100)
            /\ call.args.currency_pair = "EUR/USD") => ret.val = FInt(1000)

C8_EurUsdExample ==
    /\ MarginCall
    /\ call.args.lot_size = FInt(1)
    /\ call.args.entry_price = FLit(11, 10)
    /\ call.args.leverage = FInt(100)
    /\ call.args.currency_pair = "EUR/USD"
    /\ ret = Some(FInt(1000))

\* the spellings of "buy" in upper and lower case
BuySpellings == {"buy", "buY", "bUy", "bUY", "Buy", "BuY", "BUy", "BUY"}

LevelsPipSize == IF get_pair_info(call.args.currency_pair).val.decimals = 2 THEN FLit(1, 100) ELSE FLit(1, 10000)

LevelsBelow(pips) ==
    PyRound(FSub(call.args.entry_price, FMul(pips, LevelsPipSize)),
            get_pair_info(call.args.currency_pair).val.decimals)

LevelsAbove(pips) ==
    PyRound(FAdd(call.args.entry_price, FMul(pips, LevelsPipSize)),
            get_pair_info(call.args.currency_pair).val.decimals)

\* C9: for a known pair calculate_price_levels uses pip_size 0.01 when the
\* pair's decimals is 2 and 0.0001 otherwise (3-decimal pairs included); for
\* a direction equal to "buy" whatever its case it returns
\* sl = entry - stop_loss_pips * pip_size, tp = entry + take_profit_pips *
\* pip_size, for every other direction sl = entry + ..., tp = entry - ...;
\* both are rounded to the pair's decimals.
C9_PriceLevels ==
    (call.op = "calculate_price_levels" /\ IsKnownPair(call.args.currency_pair)) =>
        /\ ret.kind = "value"
        /\ IF call.args.trade_direction \in BuySpellings
           THEN /\ ret.val.stop_loss_price = LevelsBelow(call.args.stop_loss_pips)
                /\ ret.val.take_profit_price = LevelsAbove(call.args.take_profit_pips)
           ELSE /\ ret.val.stop_loss_price = LevelsAbove(call.args.stop_loss_pips)
                /\ ret.val.take_profit_price = LevelsBelow(call.args.take_profit_pips)

C9_UpperCaseBuyOnJpy ==
    /\ call.op = "calculate_price_levels"
    /\ call.args.currency_pair = "USD/JPY"
    /\ call.args.trade_direction = "BUY"
    /\ call.args.entry_price = FLit(15025, 100)
    /\ call.args.stop_loss_pips = FInt(20)
    /\ ret.kind = "value"
    /\ ret.val.stop_loss_price = FLit(150248, 1000)

\* C10: for a known pair calculate_margin_required with a leverage it does
\* not guard (negative or zero) yields a number; no calculator operation
\* ends in an exception for any numeric arguments.
C10_NoException ==
    /\ call.op # "idle" => ret.kind # "raise"
    /\ (MarginCall /\ IsKnownPair(call.args.currency_pair)) => ret.kind = "value"

PipValueCall == call.op = "get_pip_value"

\* the divisor of a lot type: 1, 10, 100
LotTypeDivisor(t) == IF t = "standard" THEN 1 ELSE IF t = "mini" THEN 10 ELSE 100

\* C11: for every known pair p and lot type t of standard, mini, micro,
\* get_pip_value(p, t) is get_pip_value(p, "standard") divided by 1, 10, 100
\* respectively and is strictly positive; for an unknown pair or any lot type
\* outside those three it returns None and does not raise.
C11_PipValueScaling ==
    PipValueCall =>
        IF IsKnownPair(call.args.currency_pair) /\ call.args.lot_type \in ThreeLotTypes
        THEN /\ ret.kind = "value"
             /\ ret.val = FDiv(get_pip_value(call.args.currency_pair, "standard").val,
                               FInt(LotTypeDivisor(call.args.lot_type)))
             /\ FGtZero(ret.val)
        ELSE ret.kind = "None"

C11_MicroOfJpy ==
    /\ PipValueCall
    /\ call.args.currency_pair = "USD/JPY"
    /\ call.args.lot_type = "micro"
    /\ ret = Some(FDiv(FLit(913, 100), FInt(100)))
    /\ FGtZero(ret.val)

HealthCall == call.op = "check_account_health"

\* the bands in order of severity: status, severity, inclusive upper bound
HealthBands ==
    << [status |-> "excellent", color |-> "success", upper |-> Some(FInt(1))],
       [status |-> "good", color |-> "success", upper |-> Some(FInt(2))],
       [status |-> "moderate", color |-> "warning", upper |-> Some(FInt(3))],
       [status |-> "high", color |-> "error", upper |-> Some(FInt(5))],
       [status |-> "dangerous", color |-> "error", upper |-> None] >>

\* p lies in band i: above the bound of the band before, up to its own bound
InBand(p, i) ==
    /\ i > 1 => FCmp(p, HealthBands[i - 1].upper.val) > 0
    /\ HealthBands[i].upper.kind = "value" => FCmp(p, HealthBands[i].upper.val) <= 0

\* the position of a status in the order of the bands
BandOf(status) == CHOOSE i \in 1..Len(HealthBands) : HealthBands[i].status = status

\* C12: check_account_health is total and gives every risk_percentage
\* exactly one band, with inclusive upper bounds: <= 1 excellent, (1, 2]
\* good, (2, 3] moderate, (3, 5] high, > 5 dangerous; the severity is
\* success for excellent and good, warning for moderate, error for high and
\* dangerous; 1.0 is excellent, 1.01 good, 5.01 dangerous; the band never
\* decreases as risk_percentage grows.
C12_HealthBands ==
    HealthCall =>
        /\ ret.kind = "value"
        /\ \E i \in 1..Len(HealthBands) :
              /\ InBand(call.args.risk_percentage, i)
              /\ \A j \in 1..Len(HealthBands) : InBand(call.args.risk_percentage, j) => j = i
              /\ ret.val.status = HealthBands[i].status
              /\ ret.val.color = HealthBands[i].color
        /\ call.args.risk_percentage = FInt(1) => ret.val.status = "excellent"
        /\ call.args.risk_percentage = FLit(101, 100) => ret.val.status = "good"
        /\ call.args.risk_percentage = FLit(501, 100) => ret.val.status = "dangerous"
        /\ \A q \in HealthPercentages :
              FCmp(q, call.args.risk_percentage) >= 0
                  => BandOf(check_account_health(q).status) >= BandOf(ret.val.status)

C12_EdgeOfExcellent ==
    /\ HealthCall
    /\ call.args.risk_percentage = FInt(1)
    /\ ret.kind = "value"
    /\ ret.val.status = "excellent"
    /\ ret.val.color = "success"

\* what the operation op returns for the arguments a in the current state
ResultOf(op, a) ==
    CASE op = "calculate_position_size_by_risk_percentage" ->
             calculate_position_size_by_risk_percentage(a.account_balance, a.risk_percentage, a.stop_loss_pips, a.currency_pair)
      [] op = "calculate_position_size_by_dollar_amount" ->
             calculate_position_size_by_dollar_amount(a.risk_amount, a.stop_loss_pips, a.currency_pair)
      [] op = "calculate_pip_value_info" -> calculate_pip_value_info(a.currency_pair)
      [] op = "calculate_risk_reward_ratio" ->
             calculate_risk_reward_ratio(a.take_profit_pips, a.stop_loss_pips)
      [] op = "calculate_margin_required" ->
             calculate_margin_required(a.lot_size, a.entry_price, a.leverage, a.currency_pair)
      [] op = "calculate_price_levels" ->
             calculate_price_levels(a.entry_price, a.stop_loss_pips, a.take_profit_pips, a.trade_direction, a.currency_pair)
      [] op = "calculate_reward_amount" ->
             calculate_reward_amount(a.lot_size, a.take_profit_pips, a.currency_pair, a.lot_type)
      [] op = "check_account_health" -> Some(check_account_health(a.risk_percentage))
      [] op = "validate_inputs" ->
             Some(validate_inputs(a.account_balance, a.risk_percentage, a.risk_amount, a.stop_loss_pips, a.take_profit_pips, a.entry_price))
      [] op = "get_pip_value" -> get_pip_value(a.currency_pair, a.lot_type)
      [] op = "get_pair_info" -> get_pair_info(a.currency_pair)
      [] op = "get_all_pairs" -> Some(get_all_pairs)
      [] op = "get_currency_pairs_by_category" -> Some(get_currency_pairs_by_category)

\* C13: no calculator or reference-table operation modifies CURRENCY_PAIRS
\* or the lot_sizes table {standard: 100000, mini: 10000, micro: 1000}: after
\* any sequence of calls, those returning None included, both are as they
\* were constructed, so the same operation called again with the same
\* arguments returns the same output.
C13_TablesUnchanged ==
    /\ CURRENCY_PAIRS = CurrencyPairsTable
    /\ lot_sizes = [standard |-> 100000, mini |-> 10000, micro |-> 1000]
    /\ call # Idle => ret = ResultOf(call.op, call.args)

C13_AfterAbsentResult ==
    /\ call.op = "calculate_position_size_by_dollar_amount"
    /\ call.args.currency_pair = "USD/XXX"
    /\ ret = None
    /\ CURRENCY_PAIRS = CurrencyPairsTable
    /\ lot_sizes = LotSizesInit
    /\ ResultOf(call.op, call.args) = None

\* the units of the record of lot type t
UnitsOf(t) == ret.val[t].position_size_units

\* risk_amount * 100000 / (standard pip value * stop_loss_pips), rounded
ClosedFormUnits ==
    PyRound(FDiv(FMul(SizedRiskAmount, FInt(100000)),
                 FMul(get_pip_value(call.args.currency_pair, "standard").val,
                      call.args.stop_loss_pips)), 0)

\* a and b differ by at most 1
WithinOne(a, b) == FCmp(FSub(a, b), FInt(1)) <= 0 /\ FCmp(FSub(b, a), FInt(1)) <= 0

\* C14 (as amended): within one sizing result position_size_units of lot
\* type t is (unrounded lots of t * lot_size_units of t) rounded to 0
\* places, a whole number; the values of the standard, mini and micro
\* records, and risk_amount * 100000 / (standard pip value * stop_loss_pips)
\* rounded to 0 places, differ from one another by at most 1 unit; they
\* are not always equal, since each is rounded from its own floating-point
\* product.
C14_UnitsWithinOne ==
    Sized =>
        /\ ret.kind = "value"
        /\ \A t \in ThreeLotTypes :
              /\ UnitsOf(t) = PyRound(FMul(UnroundedLots(t), FInt(ret.val[t].lot_size_units)), 0)
              /\ PyRound(UnitsOf(t), 0) = UnitsOf(t)
              /\ WithinOne(UnitsOf(t), ClosedFormUnits)
              /\ \A u \in ThreeLotTypes : WithinOne(UnitsOf(t), UnitsOf(u))

C14_UnitsDiffer ==
    /\ DollarSized
    /\ call.args.risk_amount = FLit(11, 1000)
    /\ call.args.stop_loss_pips = FInt(20)
    /\ call.args.currency_pair = "EUR/USD"
    /\ ret.kind = "value"
    /\ UnitsOf("standard") = FInt(5)
    /\ UnitsOf("mini") = FInt(5)
    /\ UnitsOf("micro") = FInt(6)

\* C14 as stated: position_size_units is the same value in the standard,
\* mini and micro records and equals risk_amount * 100000 / (standard pip
\* value * stop_loss_pips) rounded to 0 places.
C14_AsStated ==
    Sized =>
        /\ ret.kind = "value"
        /\ \A t \in ThreeLotTypes : UnitsOf(t) = ClosedFormUnits

LevelsCall == call.op = "calculate_price_levels"

\* C15: for every known pair, entry_price > 0, stop_loss_pips > 0 and
\* take_profit_pips > 0 the returned price levels lie strictly on opposite
\* sides of the entry, also after rounding to the pair's decimals: for
\* direction buy stop_loss_price < entry_price < take_profit_price, and for
\* any other direction take_profit_price < entry_price < stop_loss_price.
C15_OppositeSides ==
    (/\ LevelsCall
     /\ IsKnownPair(call.args.currency_pair)
     /\ FGtZero(call.args.entry_price)
     /\ FGtZero(call.args.stop_loss_pips)
     /\ FGtZero(call.args.take_profit_pips)) =>
        /\ ret.kind = "value"
        /\ IF call.args.trade_direction \in BuySpellings
           THEN /\ FCmp(ret.val.stop_loss_price, call.args.entry_price) < 0
                /\ FCmp(call.args.entry_price, ret.val.take_profit_price) < 0
           ELSE /\ FCmp(ret.val.take_profit_price, call.args.entry_price) < 0
                /\ FCmp(call.args.entry_price, ret.val.stop_loss_price) < 0

====
